---------------------------- MODULE Spec2Model ----------------------------
(***************************************************************************)
(* Model of youtube_auto_downloader.py: the clipboard Poller               *)
(* (monitor_clipboard / add_to_queue, main thread) and the sequential      *)
(* download Worker (_download_worker / _download_video, daemon thread)     *)
(* sharing downloaded_urls, download_queue, is_downloading,                *)
(* current_download and queue_lock.                                        *)
(*                                                                         *)
(* Strings are sequences of one-character strings.  Python's None is the   *)
(* one-element tuple None, which is no string of characters.               *)
(***************************************************************************)
EXTENDS Integers, Sequences, FiniteSets, TLC

VARIABLES
    filename_template_is_str, \* config: is config['filename_template'] a str
    downloaded_urls,          \* self.downloaded_urls (set)
    last_clipboard,           \* self.last_clipboard
    download_queue,           \* self.download_queue (queue.Queue), head first
    unfinished_tasks,         \* Queue.unfinished_tasks (put +1, task_done -1)
    is_downloading,           \* self.is_downloading
    current_download,         \* self.current_download
    queue_lock,               \* holder of self.queue_lock: "free" or a thread
    p_pc,                     \* Poller (main thread) position
    clipboard_content,        \* monitor_clipboard local
    youtube_url,              \* monitor_clipboard local / add_to_queue's url
    queue_size,               \* add_to_queue local
    p_is_downloading,         \* value of is_downloading read at line 175
    w_pc,                     \* Worker thread position
    w_url,                    \* _download_worker local url
    poison_puts,              \* number of None values put by an outside caller
    last_notification,        \* what the last show_notification call displayed
    pushed,                   \* every value put on download_queue, in order (history)
    events,                   \* lifecycle events emitted so far (history)
    put_depth,                \* qsize() right after the put of the running add_to_queue (history)
    c_pc,                     \* position of another thread calling add_to_queue
    c_url,                    \* that call's url
    c_queue_size,             \* that call's queue_size
    c_is_downloading,         \* value of is_downloading that call read at line 175
    other_calls               \* number of add_to_queue calls by that thread

vars == << filename_template_is_str, downloaded_urls, last_clipboard,
           download_queue, unfinished_tasks, is_downloading, current_download,
           queue_lock, p_pc, clipboard_content, youtube_url, queue_size,
           p_is_downloading, w_pc, w_url, poison_puts, last_notification,
           pushed, events, put_depth, c_pc, c_url, c_queue_size,
           c_is_downloading, other_calls >>

-----------------------------------------------------------------------------
(* Bounds of the model *)

\* how many of ClipboardTexts the clipboard can hold
NumTexts == 4

\* how many poison values an outside caller puts (SpecPoison only)
MaxPoison == 1

\* how many add_to_queue calls another thread makes (SpecCallers only)
MaxOtherCalls == 1

-----------------------------------------------------------------------------
(* Python values *)

None == << "None" >>

EmptyStr == << >>

\* s[:n]
Take(s, n) == SubSeq(s, 1, IF Len(s) < n THEN Len(s) ELSE n)

\* s.startswith(prefix), case-sensitive
StartsWith(s, prefix) ==
    /\ Len(prefix) <= Len(s)
    /\ \A k \in 1..Len(prefix) : s[k] = prefix[k]

\* truthiness of a str-or-None value
Truthy(x) == x # None /\ x # EmptyStr

LowerChars == <<"a", "b", "c", "d", "e", "f", "g", "h", "i", "j", "k", "l", "m", "n", "o", "p", "q", "r", "s", "t", "u", "v", "w", "x", "y", "z">>

UpperChars == <<"A", "B", "C", "D", "E", "F", "G", "H", "I", "J", "K", "L", "M", "N", "O", "P", "Q", "R", "S", "T", "U", "V", "W", "X", "Y", "Z">>

DigitChars == <<"0", "1", "2", "3", "4", "5", "6", "7", "8", "9">>

Range(s) == { s[k] : k \in 1..Len(s) }

\* case folding of re.IGNORECASE on ASCII letters
Lower(c) ==
    IF c \in Range(UpperChars)
    THEN LowerChars[CHOOSE k \in 1..Len(UpperChars) : UpperChars[k] = c]
    ELSE c

\* the character class [\w-]
IsIdChar(c) ==
    c \in Range(LowerChars) \cup Range(UpperChars) \cup Range(DigitChars) \cup {"_", "-"}

-----------------------------------------------------------------------------
(* Link Matcher: youtube_patterns and is_youtube_url *)

HttpLit == <<"h", "t", "t", "p">>

HttpSchemeLit == <<"h", "t", "t", "p", ":", "/", "/">>

HttpsSchemeLit == <<"h", "t", "t", "p", "s", ":", "/", "/">>

WwwLit == <<"w", "w", "w", ".">>

WatchHost == <<"y", "o", "u", "t", "u", "b", "e", ".", "c", "o", "m", "/", "w", "a", "t", "c", "h", "?", "v", "=">>

ShortHost == <<"y", "o", "u", "t", "u", ".", "b", "e", "/">>

ShortsHost == <<"y", "o", "u", "t", "u", "b", "e", ".", "c", "o", "m", "/", "s", "h", "o", "r", "t", "s", "/">>

PlaylistHost == <<"y", "o", "u", "t", "u", "b", "e", ".", "c", "o", "m", "/", "p", "l", "a", "y", "l", "i", "s", "t", "?", "l", "i", "s", "t", "=">>

\* self.youtube_patterns, in list order: each is (https?://)?(www\.)?(HOST[\w-]+)
youtube_patterns == << WatchHost, ShortHost, ShortsHost, PlaylistHost >>

\* a literal of the pattern matches text at position i, ignoring case
MatchLit(text, i, lit) ==
    /\ i + Len(lit) - 1 <= Len(text)
    /\ \A k \in 1..Len(lit) : Lower(text[i + k - 1]) = lit[k]

\* the position after the longest run of [\w-] characters starting at i
RECURSIVE IdRunEnd(_, _)
IdRunEnd(text, i) ==
    IF i <= Len(text) /\ IsIdChar(text[i]) THEN IdRunEnd(text, i + 1) ELSE i

\* HOST[\w-]+ at position i: the position after the match, 0 when none
MatchHost(text, i, host) ==
    IF MatchLit(text, i, host) /\ IdRunEnd(text, i + Len(host)) > i + Len(host)
    THEN IdRunEnd(text, i + Len(host))
    ELSE 0

\* (www\.)?HOST[\w-]+ at position i: the group is tried first, then skipped
MatchWww(text, i, host) ==
    IF MatchLit(text, i, WwwLit) /\ MatchHost(text, i + Len(WwwLit), host) > 0
    THEN MatchHost(text, i + Len(WwwLit), host)
    ELSE MatchHost(text, i, host)

\* length matched by https?:// at position i, 0 when it does not match
SchemeLen(text, i) ==
    IF MatchLit(text, i, HttpsSchemeLit) THEN Len(HttpsSchemeLit)
    ELSE IF MatchLit(text, i, HttpSchemeLit) THEN Len(HttpSchemeLit)
    ELSE 0

\* the whole pattern at position i: the position after the match, 0 when none
MatchAt(text, i, host) ==
    IF SchemeLen(text, i) > 0 /\ MatchWww(text, i + SchemeLen(text, i), host) > 0
    THEN MatchWww(text, i + SchemeLen(text, i), host)
    ELSE MatchWww(text, i, host)

\* re.search(pattern, text, re.IGNORECASE).group(0): leftmost match, None when none
Search(host, text) ==
    LET starts == { i \in 1..Len(text) : MatchAt(text, i, host) > 0 }
    IN IF starts = {} THEN None
       ELSE LET i == CHOOSE j \in starts : \A k \in starts : j <= k
            IN SubSeq(text, i, MatchAt(text, i, host) - 1)

\* the for loop replaced by the choice of the pattern whose match starts
\* leftmost in the text
FirstPatternMatch_Leftmost(text, p) ==
    LET cands == { q \in p..Len(youtube_patterns) :
                      Search(youtube_patterns[q], text) # None }
        start(q) == CHOOSE i \in 1..Len(text) :
                       /\ MatchAt(text, i, youtube_patterns[q]) > 0
                       /\ \A j \in 1..(i - 1) : MatchAt(text, j, youtube_patterns[q]) = 0
    IN IF cands = {} THEN None
       ELSE LET q == CHOOSE c \in cands : \A r \in cands : start(c) <= start(r)
                url == Search(youtube_patterns[q], text)
            IN IF ~StartsWith(url, HttpLit) THEN HttpsSchemeLit \o url ELSE url

\* the for loop of is_youtube_url from pattern number p on
RECURSIVE FirstPatternMatch(_, _)
FirstPatternMatch(text, p) ==
    IF p > Len(youtube_patterns) THEN None
    ELSE LET url == Search(youtube_patterns[p], text)
         IN IF url # None
            THEN IF ~StartsWith(url, HttpLit) THEN HttpsSchemeLit \o url ELSE url
            ELSE FirstPatternMatch(text, p + 1)

is_youtube_url(text) ==
    IF text = None \/ text = EmptyStr THEN None ELSE FirstPatternMatch(text, 1)

-----------------------------------------------------------------------------
(* Clipboard contents the environment can produce *)

ClipboardTexts == <<
    \* youtu.be/a
    <<"y", "o", "u", "t", "u", ".", "b", "e", "/", "a">>,
    \* see https://youtu.be/a
    <<"s", "e", "e", " ", "h", "t", "t", "p", "s", ":", "/", "/", "y", "o", "u", "t", "u", ".", "b", "e", "/", "a">>,
    \* https://youtu.be/b
    <<"h", "t", "t", "p", "s", ":", "/", "/", "y", "o", "u", "t", "u", ".", "b", "e", "/", "b">>,
    \* the empty clipboard
    << >>,
    \* hello
    <<"h", "e", "l", "l", "o">>,
    \* www.youtube.com/watch?v=c
    <<"w", "w", "w", ".", "y", "o", "u", "t", "u", "b", "e", ".", "c", "o", "m", "/", "w", "a", "t", "c", "h", "?", "v", "=", "c">>
>>

Texts == { ClipboardTexts[k] : k \in 1..NumTexts }

\* is_youtube_url on each of those contents, computed once
youtube_url_of == [t \in Texts |-> is_youtube_url(t)]

\* the Links the Link Matcher yields on those contents
Links == { youtube_url_of[t] : t \in Texts } \ {None}


-----------------------------------------------------------------------------
(* Lifecycle events: each is one show_notification call (with its log line). *)
(* events keeps their kinds and Links in order; last_notification is the     *)
(* message of the latest call, with the depth and the in-flight label in it. *)

\* url[:50] in _download_video
CurrentDownloadMaxLen == 50

Ellipsis == <<".", ".", ".">>

StartingText == <<"S", "t", "a", "r", "t", "i", "n", "g", ".", ".", ".">>

Event(kind, url) == [kind |-> kind, url |-> url]

Notification(kind, depth, current) ==
    [kind |-> kind, depth |-> depth, current |-> current]

\* show_notification(...) together with the logger call beside it
Emit(kind, url, depth, current) ==
    /\ events' = Append(events, Event(kind, url))
    /\ last_notification' = Notification(kind, depth, current)

\* url[:50] + "..."
CurrentLabel(url) == Take(url, CurrentDownloadMaxLen) \o Ellipsis

\* Queue.qsize()
qsize == Len(download_queue)

-----------------------------------------------------------------------------
(* Construction: __init__ *)

Init ==
    /\ filename_template_is_str \in BOOLEAN
    /\ downloaded_urls = {}
    /\ last_clipboard = EmptyStr
    /\ download_queue = << >>
    /\ unfinished_tasks = 0
    /\ is_downloading = FALSE
    /\ current_download = None
    /\ queue_lock = "free"
    /\ p_pc = "paste"
    /\ clipboard_content = None
    /\ youtube_url = None
    /\ queue_size = 0
    /\ p_is_downloading = FALSE
    /\ w_pc = "get"
    /\ w_url = None
    /\ poison_puts = 0
    /\ last_notification = Notification("monitoring", 0, None)
    /\ pushed = << >>
    /\ events = << >>
    /\ put_depth = 0
    /\ c_pc = "idle"
    /\ c_url = None
    /\ c_queue_size = 0
    /\ c_is_downloading = FALSE
    /\ other_calls = 0

-----------------------------------------------------------------------------
(* Poller: monitor_clipboard and add_to_queue, on the main thread *)

\* Tick without the comparison with last_clipboard
Tick_NoCompare(text) ==
    /\ p_pc = "paste"
    /\ clipboard_content' = text
    /\ last_clipboard' = text
    /\ youtube_url' = youtube_url_of[text]
    /\ p_pc' = IF Truthy(youtube_url_of[text]) THEN "check" ELSE "sleep"
    /\ UNCHANGED << filename_template_is_str, downloaded_urls, download_queue,
                    unfinished_tasks, is_downloading, current_download,
                    queue_lock, queue_size, p_is_downloading, w_pc, w_url,
                    poison_puts, last_notification, events, pushed, put_depth,
                    c_pc, c_url, c_queue_size, c_is_downloading,
                    other_calls >>

\* lines 291-300: read the clipboard; when it differs from last_clipboard,
\* remember it and run the Link Matcher; a Link found goes to add_to_queue
Tick(text) ==
    /\ p_pc = "paste"
    /\ clipboard_content' = text
    /\ IF text # last_clipboard
       THEN /\ last_clipboard' = text
            /\ youtube_url' = youtube_url_of[text]
            /\ p_pc' = IF Truthy(youtube_url_of[text]) THEN "check" ELSE "sleep"
       ELSE /\ p_pc' = "sleep"
            /\ UNCHANGED << last_clipboard, youtube_url, put_depth, c_pc, c_url,
                    c_queue_size, c_is_downloading, other_calls >>
    /\ UNCHANGED << filename_template_is_str, downloaded_urls, download_queue,
                    unfinished_tasks, is_downloading, current_download,
                    queue_lock, queue_size, p_is_downloading, w_pc, w_url,
                    poison_puts, last_notification, events, pushed, put_depth,
                    c_pc, c_url, c_queue_size, c_is_downloading,
                    other_calls >>

\* PasteError without the except clause of line 306: the error ends the loop
PasteError_Fatal ==
    /\ p_pc = "paste"
    /\ p_pc' = "stopped"
    /\ UNCHANGED << filename_template_is_str, downloaded_urls, last_clipboard,
                    download_queue, unfinished_tasks, is_downloading,
                    current_download, queue_lock, clipboard_content,
                    youtube_url, queue_size, p_is_downloading, w_pc, w_url,
                    poison_puts, last_notification, events, pushed, put_depth,
                    c_pc, c_url, c_queue_size, c_is_downloading,
                    other_calls >>

\* line 291 raising an Exception: lines 306-308 log it and sleep
PasteError ==
    /\ p_pc = "paste"
    /\ p_pc' = "sleep"
    /\ UNCHANGED << filename_template_is_str, downloaded_urls, last_clipboard,
                    download_queue, unfinished_tasks, is_downloading,
                    current_download, queue_lock, clipboard_content,
                    youtube_url, queue_size, p_is_downloading, w_pc, w_url,
                    poison_puts, last_notification, events, pushed, put_depth,
                    c_pc, c_url, c_queue_size, c_is_downloading,
                    other_calls >>

\* add_to_queue guarding on the queue's content instead of the Ledger
CheckLedger_QueueOnly ==
    /\ p_pc = "check"
    /\ p_pc' = IF youtube_url \in Range(download_queue) THEN "sleep" ELSE "mark"
    /\ UNCHANGED << filename_template_is_str, downloaded_urls, last_clipboard,
                    download_queue, unfinished_tasks, is_downloading,
                    current_download, queue_lock, clipboard_content,
                    youtube_url, queue_size, p_is_downloading, w_pc, w_url,
                    poison_puts, last_notification, events, pushed, put_depth,
                    c_pc, c_url, c_queue_size, c_is_downloading,
                    other_calls >>

\* add_to_queue without its Ledger guard
CheckLedger_NoGuard ==
    /\ p_pc = "check"
    /\ p_pc' = "mark"
    /\ UNCHANGED << filename_template_is_str, downloaded_urls, last_clipboard,
                    download_queue, unfinished_tasks, is_downloading,
                    current_download, queue_lock, clipboard_content,
                    youtube_url, queue_size, p_is_downloading, w_pc, w_url,
                    poison_puts, last_notification, events, pushed, put_depth,
                    c_pc, c_url, c_queue_size, c_is_downloading,
                    other_calls >>

\* lines 164-166: the Ledger guard of add_to_queue
CheckLedger ==
    /\ p_pc = "check"
    /\ p_pc' = IF youtube_url \in downloaded_urls THEN "sleep" ELSE "mark"
    /\ UNCHANGED << filename_template_is_str, downloaded_urls, last_clipboard,
                    download_queue, unfinished_tasks, is_downloading,
                    current_download, queue_lock, clipboard_content,
                    youtube_url, queue_size, p_is_downloading, w_pc, w_url,
                    poison_puts, last_notification, events, pushed, put_depth,
                    c_pc, c_url, c_queue_size, c_is_downloading,
                    other_calls >>

\* add_to_queue without line 169: the Link is put but not marked
MarkSeen_NoMark ==
    /\ p_pc = "mark"
    /\ p_pc' = "put"
    /\ UNCHANGED << filename_template_is_str, downloaded_urls, last_clipboard,
                    download_queue, unfinished_tasks, is_downloading,
                    current_download, queue_lock, clipboard_content,
                    youtube_url, queue_size, p_is_downloading, w_pc, w_url,
                    poison_puts, last_notification, events, pushed, put_depth,
                    c_pc, c_url, c_queue_size, c_is_downloading,
                    other_calls >>

\* line 169: self.downloaded_urls.add(url)
MarkSeen ==
    /\ p_pc = "mark"
    /\ downloaded_urls' = downloaded_urls \cup {youtube_url}
    /\ p_pc' = "put"
    /\ UNCHANGED << filename_template_is_str, last_clipboard, download_queue,
                    unfinished_tasks, is_downloading, current_download,
                    queue_lock, clipboard_content, youtube_url, queue_size,
                    p_is_downloading, w_pc, w_url, poison_puts,
                    last_notification, events, pushed, put_depth, c_pc, c_url,
                    c_queue_size, c_is_downloading, other_calls >>

\* line 172: self.download_queue.put(url)
Put ==
    /\ p_pc = "put"
    /\ download_queue' = Append(download_queue, youtube_url)
    /\ pushed' = Append(pushed, youtube_url)
    /\ unfinished_tasks' = unfinished_tasks + 1
    /\ put_depth' = Len(download_queue) + 1
    /\ p_pc' = "qsize"
    /\ UNCHANGED << filename_template_is_str, downloaded_urls, last_clipboard,
                    is_downloading, current_download, queue_lock,
                    clipboard_content, youtube_url, queue_size,
                    p_is_downloading, w_pc, w_url, poison_puts,
                    last_notification, events, c_pc, c_url, c_queue_size,
                    c_is_downloading, other_calls >>

\* line 173: queue_size = self.download_queue.qsize()
ReadQsize ==
    /\ p_pc = "qsize"
    /\ queue_size' = qsize
    /\ p_pc' = "flag"
    /\ UNCHANGED << filename_template_is_str, downloaded_urls, last_clipboard,
                    download_queue, unfinished_tasks, is_downloading,
                    current_download, queue_lock, clipboard_content,
                    youtube_url, p_is_downloading, w_pc, w_url, poison_puts,
                    last_notification, events, pushed, put_depth, c_pc, c_url,
                    c_queue_size, c_is_downloading, other_calls >>

\* ReadFlag taking queue_lock for the read
ReadFlag_Locked ==
    /\ p_pc = "flag"
    /\ queue_lock = "free"
    /\ p_is_downloading' = is_downloading
    /\ p_pc' = "emit"
    /\ UNCHANGED << filename_template_is_str, downloaded_urls, last_clipboard,
                    download_queue, unfinished_tasks, is_downloading,
                    current_download, queue_lock, clipboard_content,
                    youtube_url, queue_size, w_pc, w_url, poison_puts,
                    last_notification, events, pushed, put_depth, c_pc, c_url,
                    c_queue_size, c_is_downloading, other_calls >>

\* line 175: the read of self.is_downloading (no lock is taken)
ReadFlag ==
    /\ p_pc = "flag"
    /\ p_is_downloading' = is_downloading
    /\ p_pc' = "emit"
    /\ UNCHANGED << filename_template_is_str, downloaded_urls, last_clipboard,
                    download_queue, unfinished_tasks, is_downloading,
                    current_download, queue_lock, clipboard_content,
                    youtube_url, queue_size, w_pc, w_url, poison_puts,
                    last_notification, events, pushed, put_depth, c_pc, c_url,
                    c_queue_size, c_is_downloading, other_calls >>

\* lines 175-186: the "Added to Queue" notification; the else branch reads
\* self.current_download (no lock is taken)
EmitEnqueued ==
    /\ p_pc = "emit"
    /\ IF queue_size = 1 /\ ~p_is_downloading
       THEN Emit("enqueued", youtube_url, queue_size, None)
       ELSE Emit("enqueued", youtube_url, queue_size,
                 IF Truthy(current_download) THEN current_download
                 ELSE StartingText)
    /\ p_pc' = "sleep"
    /\ UNCHANGED << filename_template_is_str, downloaded_urls, last_clipboard,
                    download_queue, unfinished_tasks, is_downloading,
                    current_download, queue_lock, clipboard_content,
                    youtube_url, queue_size, p_is_downloading, w_pc, w_url,
                    poison_puts, pushed, put_depth, c_pc, c_url, c_queue_size,
                    c_is_downloading, other_calls >>

\* lines 302, 308: time.sleep(check_interval), then the next tick.  The locals of
\* the finished tick (clipboard_content, youtube_url, and add_to_queue's frame)
\* are dead: the next tick assigns each before reading it.  clipboard_content
\* is None until paste() has returned in the tick
Sleep ==
    /\ p_pc = "sleep"
    /\ p_pc' = "paste"
    /\ clipboard_content' = None
    /\ youtube_url' = None
    /\ queue_size' = 0
    /\ p_is_downloading' = FALSE
    /\ put_depth' = 0
    /\ UNCHANGED << filename_template_is_str, downloaded_urls, last_clipboard,
                    download_queue, unfinished_tasks, is_downloading,
                    current_download, queue_lock, w_pc, w_url, poison_puts,
                    last_notification, events, pushed, c_pc, c_url,
                    c_queue_size, c_is_downloading, other_calls >>

\* Interrupt that also stops the Worker, by putting the poison pill
Interrupt_StopsWorker ==
    /\ p_pc # "stopped"
    /\ Emit("stopped", None, 0, None)
    /\ p_pc' = "stopped"
    /\ download_queue' = Append(download_queue, None)
    /\ pushed' = Append(pushed, None)
    /\ unfinished_tasks' = unfinished_tasks + 1
    /\ UNCHANGED << filename_template_is_str, downloaded_urls, last_clipboard,
                    is_downloading, current_download, queue_lock,
                    clipboard_content, youtube_url, queue_size,
                    p_is_downloading, w_pc, w_url, poison_puts, put_depth,
                    c_pc, c_url, c_queue_size, c_is_downloading,
                    other_calls >>

\* lines 304-305, 310-315: KeyboardInterrupt anywhere in the loop; it is logged,
\* "Auto-Downloader Stopped" is shown and monitor_clipboard returns
Interrupt ==
    /\ p_pc # "stopped"
    /\ Emit("stopped", None, 0, None)
    /\ p_pc' = "stopped"
    /\ UNCHANGED << filename_template_is_str, downloaded_urls, last_clipboard,
                    download_queue, unfinished_tasks, is_downloading,
                    current_download, queue_lock, clipboard_content,
                    youtube_url, queue_size, p_is_downloading, w_pc, w_url,
                    poison_puts, pushed, put_depth, c_pc, c_url, c_queue_size,
                    c_is_downloading, other_calls >>

Poller ==
    \/ \E text \in Texts : Tick(text)
    \/ PasteError
    \/ CheckLedger
    \/ MarkSeen
    \/ Put
    \/ ReadQsize
    \/ ReadFlag
    \/ EmitEnqueued
    \/ Sleep
    \/ Interrupt

-----------------------------------------------------------------------------
(* Worker: _download_worker and _download_video, on the daemon thread *)

\* Get without the test for the poison pill
Get_IgnoresPoison ==
    /\ w_pc = "get"
    /\ download_queue # << >>
    /\ w_url' = Head(download_queue)
    /\ download_queue' = Tail(download_queue)
    /\ w_pc' = "lock"
    /\ UNCHANGED << filename_template_is_str, downloaded_urls, last_clipboard,
                    unfinished_tasks, is_downloading, current_download,
                    queue_lock, p_pc, clipboard_content, youtube_url,
                    queue_size, p_is_downloading, poison_puts,
                    last_notification, events, pushed, put_depth, c_pc, c_url,
                    c_queue_size, c_is_downloading, other_calls >>

\* Get with the wait for the running download dropped: the next value is taken
\* while the download operation is still running
Get_NoWait ==
    /\ w_pc \in {"get", "download"}
    /\ download_queue # << >>
    /\ w_url' = Head(download_queue)
    /\ download_queue' = Tail(download_queue)
    /\ w_pc' = IF Head(download_queue) = None THEN "terminated" ELSE "lock"
    /\ UNCHANGED << filename_template_is_str, downloaded_urls, last_clipboard,
                    unfinished_tasks, is_downloading, current_download,
                    queue_lock, p_pc, clipboard_content, youtube_url,
                    queue_size, p_is_downloading, poison_puts,
                    last_notification, events, pushed, put_depth, c_pc, c_url,
                    c_queue_size, c_is_downloading, other_calls >>

\* Get on a LIFO queue: the value put last is taken
Get_Lifo ==
    /\ w_pc = "get"
    /\ download_queue # << >>
    /\ w_url' = download_queue[Len(download_queue)]
    /\ download_queue' = SubSeq(download_queue, 1, Len(download_queue) - 1)
    /\ w_pc' = IF download_queue[Len(download_queue)] = None
               THEN "terminated" ELSE "lock"
    /\ UNCHANGED << filename_template_is_str, downloaded_urls, last_clipboard,
                    unfinished_tasks, is_downloading, current_download,
                    queue_lock, p_pc, clipboard_content, youtube_url,
                    queue_size, p_is_downloading, poison_puts,
                    last_notification, events, pushed, put_depth, c_pc, c_url,
                    c_queue_size, c_is_downloading, other_calls >>

\* lines 193-196: url = self.download_queue.get(), blocking while it is empty;
\* None breaks out of the loop
Get ==
    /\ w_pc = "get"
    /\ download_queue # << >>
    /\ w_url' = Head(download_queue)
    /\ download_queue' = Tail(download_queue)
    /\ w_pc' = IF Head(download_queue) = None THEN "terminated" ELSE "lock"
    /\ UNCHANGED << filename_template_is_str, downloaded_urls, last_clipboard,
                    unfinished_tasks, is_downloading, current_download,
                    queue_lock, p_pc, clipboard_content, youtube_url,
                    queue_size, p_is_downloading, poison_puts,
                    last_notification, events, pushed, put_depth, c_pc, c_url,
                    c_queue_size, c_is_downloading, other_calls >>

\* lines 209-210: with self.queue_lock (acquire); self.is_downloading = True
SetFlag ==
    /\ w_pc = "lock"
    /\ queue_lock = "free"
    /\ queue_lock' = "worker"
    /\ is_downloading' = TRUE
    /\ w_pc' = "set_current"
    /\ UNCHANGED << filename_template_is_str, downloaded_urls, last_clipboard,
                    download_queue, unfinished_tasks, current_download, p_pc,
                    clipboard_content, youtube_url, queue_size,
                    p_is_downloading, w_url, poison_puts, last_notification,
                    events, pushed, put_depth, c_pc, c_url, c_queue_size,
                    c_is_downloading, other_calls >>

\* line 211 and the end of the with block: set current_download, release
SetCurrent ==
    /\ w_pc = "set_current"
    /\ current_download' = CurrentLabel(w_url)
    /\ queue_lock' = "free"
    /\ w_pc' = "started"
    /\ UNCHANGED << filename_template_is_str, downloaded_urls, last_clipboard,
                    download_queue, unfinished_tasks, is_downloading, p_pc,
                    clipboard_content, youtube_url, queue_size,
                    p_is_downloading, w_url, poison_puts, last_notification,
                    events, pushed, put_depth, c_pc, c_url, c_queue_size,
                    c_is_downloading, other_calls >>

\* lines 213-240: queue_remaining = qsize(), "Download Started", then ydl_opts.
\* os.path.join raises TypeError on a filename_template that is no str; no try
\* is open yet, so it leaves _download_video, is caught and logged at lines
\* 204-205 (task_done is skipped) and the loop goes back to line 193, where url
\* is dead until get() assigns it
StartDownload ==
    /\ w_pc = "started"
    /\ Emit("started", w_url, qsize, None)
    /\ w_pc' = IF filename_template_is_str THEN "download" ELSE "get"
    /\ w_url' = IF filename_template_is_str THEN w_url ELSE None
    /\ UNCHANGED << filename_template_is_str, downloaded_urls, last_clipboard,
                    download_queue, unfinished_tasks, is_downloading,
                    current_download, queue_lock, p_pc, clipboard_content,
                    youtube_url, queue_size, p_is_downloading, poison_puts,
                    pushed, put_depth, c_pc, c_url, c_queue_size,
                    c_is_downloading, other_calls >>

\* lines 243-261: the download operation returns; queue_remaining = qsize(),
\* "Download Complete!"
DownloadCompletes ==
    /\ w_pc = "download"
    /\ Emit("completed", w_url, qsize, None)
    /\ w_pc' = "finally"
    /\ UNCHANGED << filename_template_is_str, downloaded_urls, last_clipboard,
                    download_queue, unfinished_tasks, is_downloading,
                    current_download, queue_lock, p_pc, clipboard_content,
                    youtube_url, queue_size, p_is_downloading, w_url,
                    poison_puts, pushed, put_depth, c_pc, c_url, c_queue_size,
                    c_is_downloading, other_calls >>

\* DownloadFails forgetting the Link so that it can be tried again
DownloadFails_Forgets ==
    /\ w_pc = "download"
    /\ Emit("failed", w_url, 0, None)
    /\ downloaded_urls' = downloaded_urls \ {w_url}
    /\ w_pc' = "finally"
    /\ UNCHANGED << filename_template_is_str, last_clipboard, download_queue,
                    unfinished_tasks, is_downloading, current_download,
                    queue_lock, p_pc, clipboard_content, youtube_url,
                    queue_size, p_is_downloading, w_url, poison_puts, pushed,
                    put_depth, c_pc, c_url, c_queue_size, c_is_downloading,
                    other_calls >>

\* DownloadFails without the except clause of line 263: the error leaves the loop
DownloadFails_LeavesLoop ==
    /\ w_pc = "download"
    /\ Emit("failed", w_url, 0, None)
    /\ w_pc' = "terminated"
    /\ UNCHANGED << filename_template_is_str, downloaded_urls, last_clipboard,
                    download_queue, unfinished_tasks, is_downloading,
                    current_download, queue_lock, p_pc, clipboard_content,
                    youtube_url, queue_size, p_is_downloading, w_url,
                    poison_puts, pushed, put_depth, c_pc, c_url, c_queue_size,
                    c_is_downloading, other_calls >>

\* lines 243-244, 263-270: the download operation raises an Exception;
\* "Download Failed"
DownloadFails ==
    /\ w_pc = "download"
    /\ Emit("failed", w_url, 0, None)
    /\ w_pc' = "finally"
    /\ UNCHANGED << filename_template_is_str, downloaded_urls, last_clipboard,
                    download_queue, unfinished_tasks, is_downloading,
                    current_download, queue_lock, p_pc, clipboard_content,
                    youtube_url, queue_size, p_is_downloading, w_url,
                    poison_puts, pushed, put_depth, c_pc, c_url, c_queue_size,
                    c_is_downloading, other_calls >>

\* lines 271-273: finally: with self.queue_lock (acquire);
\* self.is_downloading = False
ClearFlag ==
    /\ w_pc = "finally"
    /\ queue_lock = "free"
    /\ queue_lock' = "worker"
    /\ is_downloading' = FALSE
    /\ w_pc' = "clear_current"
    /\ UNCHANGED << filename_template_is_str, downloaded_urls, last_clipboard,
                    download_queue, unfinished_tasks, current_download, p_pc,
                    clipboard_content, youtube_url, queue_size,
                    p_is_downloading, w_url, poison_puts, last_notification,
                    events, pushed, put_depth, c_pc, c_url, c_queue_size,
                    c_is_downloading, other_calls >>

\* ClearCurrent leaving queue_lock held
ClearCurrent_KeepsLock ==
    /\ w_pc = "clear_current"
    /\ current_download' = None
    /\ unfinished_tasks' = unfinished_tasks - 1
    /\ w_pc' = "get"
    /\ w_url' = None
    /\ UNCHANGED << filename_template_is_str, downloaded_urls, last_clipboard,
                    download_queue, is_downloading, queue_lock, p_pc,
                    clipboard_content, youtube_url, queue_size,
                    p_is_downloading, poison_puts, last_notification, events,
                    pushed, put_depth, c_pc, c_url, c_queue_size,
                    c_is_downloading, other_calls >>

\* line 274 and the end of the with block: clear current_download, release;
\* line 202: task_done(); back to line 193, where url is dead until get()
\* assigns it
ClearCurrent ==
    /\ w_pc = "clear_current"
    /\ current_download' = None
    /\ queue_lock' = "free"
    /\ unfinished_tasks' = unfinished_tasks - 1
    /\ w_pc' = "get"
    /\ w_url' = None
    /\ UNCHANGED << filename_template_is_str, downloaded_urls, last_clipboard,
                    download_queue, is_downloading, p_pc, clipboard_content,
                    youtube_url, queue_size, p_is_downloading, poison_puts,
                    last_notification, events, pushed, put_depth, c_pc, c_url,
                    c_queue_size, c_is_downloading, other_calls >>

Worker ==
    \/ Get
    \/ SetFlag
    \/ SetCurrent
    \/ StartDownload
    \/ DownloadCompletes
    \/ DownloadFails
    \/ ClearFlag
    \/ ClearCurrent

-----------------------------------------------------------------------------
(* An outside holder of the object stopping the Worker: the poison pill of *)
(* line 195.  No method of the class puts it.                              *)

PutPoison ==
    /\ poison_puts < MaxPoison
    /\ poison_puts' = poison_puts + 1
    /\ download_queue' = Append(download_queue, None)
    /\ pushed' = Append(pushed, None)
    /\ unfinished_tasks' = unfinished_tasks + 1
    /\ UNCHANGED << filename_template_is_str, downloaded_urls, last_clipboard,
                    is_downloading, current_download, queue_lock, p_pc,
                    clipboard_content, youtube_url, queue_size,
                    p_is_downloading, w_pc, w_url, last_notification, events,
                    put_depth, c_pc, c_url, c_queue_size, c_is_downloading,
                    other_calls >>

-----------------------------------------------------------------------------
(* Another thread calling add_to_queue while the Poller runs: the method is *)
(* public and takes no lock.  No thread of the program does so.             *)

\* add_to_queue(url) is called with a Link
Other_Call(url) ==
    /\ c_pc = "idle"
    /\ other_calls < MaxOtherCalls
    /\ other_calls' = other_calls + 1
    /\ c_url' = url
    /\ c_pc' = "check"
    /\ UNCHANGED << filename_template_is_str, downloaded_urls, last_clipboard,
                    download_queue, unfinished_tasks, is_downloading,
                    current_download, queue_lock, p_pc, clipboard_content,
                    youtube_url, queue_size, p_is_downloading, w_pc, w_url,
                    poison_puts, last_notification, events, pushed, put_depth,
                    c_queue_size, c_is_downloading >>

\* lines 164-166: the Ledger guard
Other_CheckLedger ==
    /\ c_pc = "check"
    /\ c_pc' = IF c_url \in downloaded_urls THEN "idle" ELSE "mark"
    /\ c_url' = IF c_url \in downloaded_urls THEN None ELSE c_url
    /\ UNCHANGED << filename_template_is_str, downloaded_urls, last_clipboard,
                    download_queue, unfinished_tasks, is_downloading,
                    current_download, queue_lock, p_pc, clipboard_content,
                    youtube_url, queue_size, p_is_downloading, w_pc, w_url,
                    poison_puts, last_notification, events, pushed, put_depth,
                    c_queue_size, c_is_downloading, other_calls >>

\* line 169: self.downloaded_urls.add(url)
Other_MarkSeen ==
    /\ c_pc = "mark"
    /\ downloaded_urls' = downloaded_urls \cup {c_url}
    /\ c_pc' = "put"
    /\ UNCHANGED << filename_template_is_str, last_clipboard, download_queue,
                    unfinished_tasks, is_downloading, current_download,
                    queue_lock, p_pc, clipboard_content, youtube_url,
                    queue_size, p_is_downloading, w_pc, w_url, poison_puts,
                    last_notification, events, pushed, put_depth, c_url,
                    c_queue_size, c_is_downloading, other_calls >>

\* line 172: self.download_queue.put(url)
Other_Put ==
    /\ c_pc = "put"
    /\ download_queue' = Append(download_queue, c_url)
    /\ pushed' = Append(pushed, c_url)
    /\ unfinished_tasks' = unfinished_tasks + 1
    /\ c_pc' = "qsize"
    /\ UNCHANGED << filename_template_is_str, downloaded_urls, last_clipboard,
                    is_downloading, current_download, queue_lock, p_pc,
                    clipboard_content, youtube_url, queue_size,
                    p_is_downloading, w_pc, w_url, poison_puts,
                    last_notification, events, put_depth, c_url, c_queue_size,
                    c_is_downloading, other_calls >>

\* line 173: queue_size = self.download_queue.qsize()
Other_ReadQsize ==
    /\ c_pc = "qsize"
    /\ c_queue_size' = qsize
    /\ c_pc' = "flag"
    /\ UNCHANGED << filename_template_is_str, downloaded_urls, last_clipboard,
                    download_queue, unfinished_tasks, is_downloading,
                    current_download, queue_lock, p_pc, clipboard_content,
                    youtube_url, queue_size, p_is_downloading, w_pc, w_url,
                    poison_puts, last_notification, events, pushed, put_depth,
                    c_url, c_is_downloading, other_calls >>

\* line 175: the read of self.is_downloading
Other_ReadFlag ==
    /\ c_pc = "flag"
    /\ c_is_downloading' = is_downloading
    /\ c_pc' = "emit"
    /\ UNCHANGED << filename_template_is_str, downloaded_urls, last_clipboard,
                    download_queue, unfinished_tasks, is_downloading,
                    current_download, queue_lock, p_pc, clipboard_content,
                    youtube_url, queue_size, p_is_downloading, w_pc, w_url,
                    poison_puts, last_notification, events, pushed, put_depth,
                    c_url, c_queue_size, other_calls >>

\* lines 175-186: the "Added to Queue" notification; the call returns and its
\* locals are gone
Other_EmitEnqueued ==
    /\ c_pc = "emit"
    /\ IF c_queue_size = 1 /\ ~c_is_downloading
       THEN Emit("enqueued", c_url, c_queue_size, None)
       ELSE Emit("enqueued", c_url, c_queue_size,
                 IF Truthy(current_download) THEN current_download
                 ELSE StartingText)
    /\ c_pc' = "idle"
    /\ c_url' = None
    /\ c_queue_size' = 0
    /\ c_is_downloading' = FALSE
    /\ UNCHANGED << filename_template_is_str, downloaded_urls, last_clipboard,
                    download_queue, unfinished_tasks, is_downloading,
                    current_download, queue_lock, p_pc, clipboard_content,
                    youtube_url, queue_size, p_is_downloading, w_pc, w_url,
                    poison_puts, pushed, put_depth, other_calls >>

\* the clipboard contents of the runs with the other caller: "youtu.be/a",
\* "see https://youtu.be/a" and the empty clipboard
CallerTexts == { ClipboardTexts[1], ClipboardTexts[2], ClipboardTexts[4] }

\* the Links in them: what a second detection of the same Link is called with
CallerLinks == { youtube_url_of[t] : t \in CallerTexts } \ {None}

OtherCaller ==
    \/ \E url \in CallerLinks : Other_Call(url)
    \/ Other_CheckLedger
    \/ Other_MarkSeen
    \/ Other_Put
    \/ Other_ReadQsize
    \/ Other_ReadFlag
    \/ Other_EmitEnqueued

-----------------------------------------------------------------------------
(* Specifications *)

Next == Poller \/ Worker

\* the program as main() runs it
Spec == Init /\ [][Next]_vars

NextPoison == Poller \/ Worker \/ PutPoison

\* the program with an outside caller that may put the poison pill
SpecPoison == Init /\ [][NextPoison]_vars

\* the Poller's ticks on CallerTexts, with no read error and no stop signal
PollerOnCallerTexts ==
    \/ \E text \in CallerTexts : Tick(text)
    \/ CheckLedger
    \/ MarkSeen
    \/ Put
    \/ ReadQsize
    \/ ReadFlag
    \/ EmitEnqueued
    \/ Sleep

\* the program with its Worker thread scheduled fairly and every download
\* operation returning, by success or by error
LiveSpec == Spec /\ WF_vars(Worker)

NextCallers == PollerOnCallerTexts \/ Worker \/ OtherCaller

\* the program with a second thread that calls add_to_queue
SpecCallers == Init /\ [][NextCallers]_vars

\* the Worker's steps that wait for nothing but the scheduler: every step of its
\* loop except the return of the download operation (which may hang for ever)
WorkerProgress ==
    \/ Get
    \/ SetFlag
    \/ SetCurrent
    \/ StartDownload
    \/ ClearFlag
    \/ ClearCurrent

\* the program with its daemon Worker thread scheduled fairly for as long as the
\* process lives: once monitor_clipboard has returned, main() returns and the
\* process may end at any moment, so nothing is promised after that
FairSpec == Spec /\ WF_vars(WorkerProgress /\ p_pc # "stopped")

-----------------------------------------------------------------------------
(* The Link Matcher on its own: line 297 applied to arbitrary content *)

\* how many of MatcherIds the inputs use
NumIds == 2

\* what comes before the URL in the text
MatcherPrefixes == <<
    \* (empty)
    << >>,
    \* see 
    <<"s", "e", "e", " ">>
>>

\* the scheme as written in the text
MatcherSchemes == <<
    \* (empty)
    << >>,
    \* http://
    <<"h", "t", "t", "p", ":", "/", "/">>,
    \* https://
    <<"h", "t", "t", "p", "s", ":", "/", "/">>,
    \* HTTP://
    <<"H", "T", "T", "P", ":", "/", "/">>,
    \* Https://
    <<"H", "t", "t", "p", "s", ":", "/", "/">>
>>

\* the www. part as written in the text
MatcherWwws == <<
    \* (empty)
    << >>,
    \* www.
    <<"w", "w", "w", ".">>,
    \* WWW.
    <<"W", "W", "W", ".">>
>>

\* the host and path as written in the text
MatcherHosts == <<
    \* youtube.com/watch?v=
    <<"y", "o", "u", "t", "u", "b", "e", ".", "c", "o", "m", "/", "w", "a", "t", "c", "h", "?", "v", "=">>,
    \* youtu.be/
    <<"y", "o", "u", "t", "u", ".", "b", "e", "/">>,
    \* youtube.com/shorts/
    <<"y", "o", "u", "t", "u", "b", "e", ".", "c", "o", "m", "/", "s", "h", "o", "r", "t", "s", "/">>,
    \* youtube.com/playlist?list=
    <<"y", "o", "u", "t", "u", "b", "e", ".", "c", "o", "m", "/", "p", "l", "a", "y", "l", "i", "s", "t", "?", "l", "i", "s", "t", "=">>,
    \* YouTu.Be/
    <<"Y", "o", "u", "T", "u", ".", "B", "e", "/">>,
    \* YOUTUBE.COM/WATCH?V=
    <<"Y", "O", "U", "T", "U", "B", "E", ".", "C", "O", "M", "/", "W", "A", "T", "C", "H", "?", "V", "=">>
>>

\* the video or playlist id
MatcherIds == <<
    \* a
    <<"a">>,
    \* a-B_1
    <<"a", "-", "B", "_", "1">>,
    \* Zz9
    <<"Z", "z", "9">>
>>

\* what comes after the URL in the text
MatcherSuffixes == <<
    \* (empty)
    << >>,
    \*  nice
    <<" ", "n", "i", "c", "e">>,
    \* &t=1
    <<"&", "t", "=", "1">>
>>

\* the text of the usage scenario
ScenarioText ==
    <<"c", "h", "e", "c", "k", " ", "t", "h", "i", "s", " ", "o", "u", "t", " ", "h", "t", "t", "p", "s", ":", "/", "/", "y", "o", "u", "t", "u", ".", "b", "e", "/", "a", "b", "c", "1", "2", "3", "X", "Y", "Z", "9", " ", "n", "i", "c", "e">>

ScenarioLink ==
    <<"h", "t", "t", "p", "s", ":", "/", "/", "y", "o", "u", "t", "u", ".", "b", "e", "/", "a", "b", "c", "1", "2", "3", "X", "Y", "Z", "9">>

\* texts with two URLs, with none and with a cut one
MatcherOtherTexts == <<
    \* youtu.be/a youtube.com/watch?v=b
    <<"y", "o", "u", "t", "u", ".", "b", "e", "/", "a", " ", "y", "o", "u", "t", "u", "b", "e", ".", "c", "o", "m", "/", "w", "a", "t", "c", "h", "?", "v", "=", "b">>,
    \* https://youtu.be/a https://www.youtube.com/watch?v=b
    <<"h", "t", "t", "p", "s", ":", "/", "/", "y", "o", "u", "t", "u", ".", "b", "e", "/", "a", " ", "h", "t", "t", "p", "s", ":", "/", "/", "w", "w", "w", ".", "y", "o", "u", "t", "u", "b", "e", ".", "c", "o", "m", "/", "w", "a", "t", "c", "h", "?", "v", "=", "b">>,
    \* youtube.com/playlist?list=p youtube.com/shorts/s
    <<"y", "o", "u", "t", "u", "b", "e", ".", "c", "o", "m", "/", "p", "l", "a", "y", "l", "i", "s", "t", "?", "l", "i", "s", "t", "=", "p", " ", "y", "o", "u", "t", "u", "b", "e", ".", "c", "o", "m", "/", "s", "h", "o", "r", "t", "s", "/", "s">>,
    \* youtube.com/shorts/s youtu.be/a
    <<"y", "o", "u", "t", "u", "b", "e", ".", "c", "o", "m", "/", "s", "h", "o", "r", "t", "s", "/", "s", " ", "y", "o", "u", "t", "u", ".", "b", "e", "/", "a">>,
    \* youtube.com/watch?v=
    <<"y", "o", "u", "t", "u", "b", "e", ".", "c", "o", "m", "/", "w", "a", "t", "c", "h", "?", "v", "=">>,
    \* hello
    <<"h", "e", "l", "l", "o">>,
    \* http://example.com/watch?v=a
    <<"h", "t", "t", "p", ":", "/", "/", "e", "x", "a", "m", "p", "l", "e", ".", "c", "o", "m", "/", "w", "a", "t", "c", "h", "?", "v", "=", "a">>,
    \* xhttp://youtu.be/a
    <<"x", "h", "t", "t", "p", ":", "/", "/", "y", "o", "u", "t", "u", ".", "b", "e", "/", "a">>,
    \* youtu.be/a?x
    <<"y", "o", "u", "t", "u", ".", "b", "e", "/", "a", "?", "x">>
>>

\* the values is_youtube_url is applied to: None (no str), the empty str, the
\* texts above and every text made of the parts above
MatcherTexts ==
    {None, EmptyStr, ScenarioText}
    \cup Range(MatcherOtherTexts)
    \cup { pre \o sch \o www \o host \o MatcherIds[k] \o suf :
              pre \in Range(MatcherPrefixes), sch \in Range(MatcherSchemes),
              www \in Range(MatcherWwws), host \in Range(MatcherHosts),
              k \in 1..NumIds, suf \in Range(MatcherSuffixes) }

MatcherInit ==
    /\ filename_template_is_str = TRUE
    /\ downloaded_urls = {}
    /\ last_clipboard = EmptyStr
    /\ download_queue = << >>
    /\ unfinished_tasks = 0
    /\ is_downloading = FALSE
    /\ current_download = None
    /\ queue_lock = "free"
    /\ p_pc = "match"
    /\ clipboard_content \in MatcherTexts
    /\ youtube_url = None
    /\ queue_size = 0
    /\ p_is_downloading = FALSE
    /\ w_pc = "get"
    /\ w_url = None
    /\ poison_puts = 0
    /\ last_notification = Notification("monitoring", 0, None)
    /\ pushed = << >>
    /\ events = << >>
    /\ put_depth = 0
    /\ c_pc = "idle"
    /\ c_url = None
    /\ c_queue_size = 0
    /\ c_is_downloading = FALSE
    /\ other_calls = 0

\* line 297: youtube_url = self.is_youtube_url(clipboard_content)
Match ==
    /\ p_pc = "match"
    /\ youtube_url' = is_youtube_url(clipboard_content)
    /\ p_pc' = "matched"
    /\ UNCHANGED << filename_template_is_str, downloaded_urls, last_clipboard,
                    download_queue, unfinished_tasks, is_downloading,
                    current_download, queue_lock, clipboard_content,
                    queue_size, p_is_downloading, w_pc, w_url, poison_puts,
                    last_notification, events, pushed, put_depth, c_pc, c_url,
                    c_queue_size, c_is_downloading, other_calls >>

SpecMatcher == MatcherInit /\ [][Match]_vars

-----------------------------------------------------------------------------
(* Reading the histories *)

IsStarted(i) == events[i].kind = "started"

IsDone(j) == events[j].kind \in {"completed", "failed"}

\* event j is the completed/failed event of the download started by event i
IsDoneOf(i, j) == j > i /\ IsDone(j) /\ events[j].url = events[i].url

\* the download started by event i has no completed/failed event yet
IsOpen(i) == IsStarted(i) /\ ~\E j \in DOMAIN events : IsDoneOf(i, j)

\* the Links of the started events, in the order of emission
RECURSIVE StartedUrlsUpTo(_)
StartedUrlsUpTo(n) ==
    IF n = 0 THEN << >>
    ELSE IF IsStarted(n) THEN Append(StartedUrlsUpTo(n - 1), events[n].url)
    ELSE StartedUrlsUpTo(n - 1)

StartedUrls == StartedUrlsUpTo(Len(events))

IsPrefix(s, t) == Len(s) <= Len(t) /\ SubSeq(t, 1, Len(s)) = s

NoDuplicates(s) == \A i, j \in DOMAIN s : s[i] = s[j] => i = j

HasEvent(kind, url) == \E i \in DOMAIN events : events[i] = Event(kind, url)

-----------------------------------------------------------------------------
(* C1 *)

\* the download started by event i is in flight: the download operation was
\* invoked for it (ydl_opts could be built) and has neither returned nor raised
IsInFlight(i) == IsOpen(i) /\ filename_template_is_str

\* C1: downloads never overlap.  Between the started event of a Link and its
\* completed/failed event no other started event is emitted; while a download is
\* in flight the Worker is inside the download operation and still holds that
\* very Link (it has popped nothing since); at most one download is in flight;
\* and a completed/failed event is only ever emitted for an invoked download.
C1_DownloadsNeverOverlap ==
    /\ \A i, j \in DOMAIN events :
          IsStarted(i) /\ IsDoneOf(i, j) => \A k \in (i + 1)..(j - 1) : ~IsStarted(k)
    /\ \A i \in DOMAIN events :
          IsInFlight(i) => w_pc = "download" /\ w_url = events[i].url
    /\ Cardinality({ i \in DOMAIN events : IsInFlight(i) }) <= 1
    /\ \A j \in DOMAIN events : IsDone(j) => filename_template_is_str

\* a second Link was enqueued while the first was being downloaded, and was
\* started only after the first one's download ended
C1_Witness ==
    \E i, e, j, k \in DOMAIN events :
       /\ i < e /\ e < j /\ j < k
       /\ IsStarted(i) /\ IsDoneOf(i, j)
       /\ events[e].kind = "enqueued" /\ events[e].url = events[k].url
       /\ IsStarted(k)

-----------------------------------------------------------------------------
(* C2 *)

\* C2: strict FIFO execution.  The Links of the started events, in order, are a
\* prefix of the Links add_to_queue put on the queue, in order: a Link put
\* before another is started before it, whatever the interleaving.
C2_FifoExecution == IsPrefix(StartedUrls, pushed)

\* two Links were started, and the first was popped and started before its own
\* enqueued event was emitted, hence before the tick that put the second one on
\* the queue (a pop between the pushes)
C2_Witness ==
    /\ Len(StartedUrls) = 2
    /\ \E i, e \in DOMAIN events :
          /\ i < e
          /\ IsStarted(i) /\ events[i].url = StartedUrls[1]
          /\ events[e] = Event("enqueued", StartedUrls[1])

-----------------------------------------------------------------------------
(* C3 *)

\* C3: at most once per Link.  No Link is put on the queue twice over the whole
\* run, the queue never holds a Link twice, and at most one download is started
\* for a Link, however often it is detected again.
C3_AtMostOncePerLink ==
    /\ NoDuplicates(pushed)
    /\ NoDuplicates(download_queue)
    /\ NoDuplicates(StartedUrls)

\* a Link whose download completed is detected again: add_to_queue is entered
\* with it
C3_Witness ==
    /\ p_pc = "check"
    /\ HasEvent("enqueued", youtube_url)
    /\ HasEvent("completed", youtube_url)

-----------------------------------------------------------------------------
(* C4 *)

\* the position of a Link among the values put on the queue
PushedIndex(url) == CHOOSE k \in DOMAIN pushed : pushed[k] = url

\* the events of the Worker
IsWorkerEvent(j) == events[j].kind \in {"started", "completed", "failed"}

\* what holds once the failed event of a Link A has been emitted as event i
FailureIsolated(i) ==
    LET A == events[i].url
        after == { j \in DOMAIN events : j > i /\ IsWorkerEvent(j) }
    IN /\ A \notin Range(download_queue)
       /\ Cardinality({ k \in DOMAIN pushed : pushed[k] = A }) = 1
       /\ w_pc # "terminated"
       /\ \A j \in DOMAIN events :
             IsStarted(j) /\ PushedIndex(events[j].url) > PushedIndex(A) => j > i
       /\ after = {} =>
             \/ w_pc \in {"finally", "clear_current"} /\ w_url = A
             \/ /\ w_pc = "get"
                /\ download_queue = SubSeq(pushed, PushedIndex(A) + 1, Len(pushed))
             \/ /\ w_pc \in {"lock", "set_current", "started"}
                /\ PushedIndex(A) < Len(pushed)
                /\ w_url = pushed[PushedIndex(A) + 1]
                /\ download_queue = SubSeq(pushed, PushedIndex(A) + 2, Len(pushed))
       /\ after # {} =>
             LET j == CHOOSE m \in after : \A n \in after : m <= n
             IN /\ PushedIndex(A) < Len(pushed)
                /\ events[j] = Event("started", pushed[PushedIndex(A) + 1])

C4_FailureIsolationInv ==
    \A i \in DOMAIN events : events[i].kind = "failed" => FailureIsolated(i)

\* C4: failure isolation.  Once the download of a Link A has raised, its failed
\* event is out, A is not in the queue and is never put again, and the Worker is
\* still in its loop: it clears the state and waits on get with the queue holding
\* exactly the Links put after A; the next thing the Worker emits is the started
\* event of the Link put right after A, so failed(A) comes before it.  And a Link
\* B waiting in the queue after A failed is popped and started (as long as the
\* process is not stopped).
C4_FailureIsolation ==
    /\ []C4_FailureIsolationInv
    /\ \A A \in Links : \A B \in Links :
          (HasEvent("failed", A) /\ B \in Range(download_queue))
             ~> (HasEvent("started", B) \/ p_pc = "stopped")

\* the download of A failed and the Link put right after A was started next
C4_Witness ==
    \E i, j \in DOMAIN events :
       /\ i < j
       /\ events[i].kind = "failed"
       /\ PushedIndex(events[i].url) < Len(pushed)
       /\ events[j] = Event("started", pushed[PushedIndex(events[i].url) + 1])
       /\ p_pc # "stopped"

-----------------------------------------------------------------------------
(* C5 *)

\* C5: the Current Download State is non-null exactly while the Worker executes
\* a download: both fields are set when the download operation is invoked and
\* running, and both are null whenever the Worker is blocked in get or about to
\* call it (so they were cleared after the previous download operation ended,
\* whatever its outcome).
C5_StateSetIffDownloading ==
    /\ w_pc = "download" =>
          is_downloading /\ current_download = CurrentLabel(w_url)
    /\ w_pc = "get" => ~is_downloading /\ current_download = None

-----------------------------------------------------------------------------
(* C6 *)

\* the step appends an enqueued event
EmitsEnqueued ==
    /\ Len(events') = Len(events) + 1
    /\ events'[Len(events')].kind = "enqueued"

\* the tick now sleeping detected youtube_url again: its enqueued event is
\* followed by the enqueued event of another Link, so it stems from an earlier
\* tick
IsRedetection ==
    /\ p_pc = "sleep"
    /\ Truthy(youtube_url)
    /\ \E e, f \in DOMAIN events :
          /\ e < f
          /\ events[e] = Event("enqueued", youtube_url)
          /\ events[f].kind = "enqueued"

\* C6: idempotent detection.  A step of add_to_queue taken with a Link that is
\* already in the Ledger ends the call: the Ledger, the queue and the values put
\* so far are unchanged and no enqueued event is emitted.
C6_IdempotentDetection ==
    [][ (p_pc = "check" /\ youtube_url \in downloaded_urls /\ p_pc' # "check") =>
          /\ p_pc' \in {"sleep", "stopped"}
          /\ downloaded_urls' = downloaded_urls
          /\ download_queue' = download_queue
          /\ pushed' = pushed
          /\ ~EmitsEnqueued ]_vars

\* a Link is detected a second time while it is still waiting in the queue: the
\* Ledger and the queue hold it once
C6_Witness ==
    /\ IsRedetection
    /\ Len(download_queue) = 2
    /\ youtube_url = download_queue[1]
    /\ Cardinality(downloaded_urls) = 2

-----------------------------------------------------------------------------
(* C7 *)

\* C7: the Ledger only grows.  No step removes a Link from downloaded_urls, and
\* a Link whose download failed is in the Ledger and has exactly one started
\* event, whatever was detected since.
C7_LedgerOnlyGrows ==
    /\ [][downloaded_urls \subseteq downloaded_urls']_vars
    /\ [](\A i \in DOMAIN events :
            events[i].kind = "failed" =>
               /\ events[i].url \in downloaded_urls
               /\ Cardinality({ j \in DOMAIN events :
                                   events[j] = Event("started", events[i].url) }) = 1
               /\ Cardinality({ k \in DOMAIN pushed : pushed[k] = events[i].url }) = 1)

\* a Link whose download failed was detected again, and the tick has ended
C7_Witness ==
    /\ IsRedetection
    /\ HasEvent("failed", youtube_url)

-----------------------------------------------------------------------------
(* C8 *)

\* C8: a tick that reads the same content as last_clipboard does nothing.  The
\* step goes straight to the sleep; last_clipboard, the Ledger, the queue and the
\* values put so far are unchanged, the Link Matcher is not run and nothing is
\* emitted.
C8_UnchangedTickDoesNothing ==
    [][ (p_pc = "paste" /\ p_pc' \notin {"paste", "stopped"}
            /\ clipboard_content' = last_clipboard) =>
          /\ p_pc' = "sleep"
          /\ UNCHANGED << last_clipboard, downloaded_urls, download_queue, pushed,
                          youtube_url, events, last_notification >> ]_vars

\* a tick has just read, unchanged, a content that holds a recognized Link
C8_Witness ==
    /\ p_pc = "sleep"
    /\ clipboard_content = last_clipboard
    /\ Truthy(is_youtube_url(clipboard_content))
    /\ youtube_url = None

-----------------------------------------------------------------------------
(* C9 *)

\* C9: the Poller never blocks on the Worker.  Wherever the Worker is, the step
\* the Poller is about to take is enabled, all through a tick and add_to_queue;
\* and the Worker can always take its next step except in get, where it waits
\* exactly while the queue is empty.
C9_PollerNeverBlocks ==
    /\ p_pc = "paste" => \A text \in Texts : ENABLED Tick(text)
    /\ p_pc = "check" => ENABLED CheckLedger
    /\ p_pc = "mark" => ENABLED MarkSeen
    /\ p_pc = "put" => ENABLED Put
    /\ p_pc = "qsize" => ENABLED ReadQsize
    /\ p_pc = "flag" => ENABLED ReadFlag
    /\ p_pc = "emit" => ENABLED EmitEnqueued
    /\ p_pc = "sleep" => ENABLED Sleep
    /\ w_pc \notin {"get", "terminated"} => ENABLED Worker
    /\ w_pc = "get" => (ENABLED Get <=> download_queue # << >>)

\* the Poller is inside add_to_queue, about to read is_downloading, while the
\* Worker is inside the lock-guarded update of the Current Download State
C9_Witness ==
    /\ p_pc = "flag"
    /\ w_pc = "set_current"
    /\ queue_lock = "worker"

-----------------------------------------------------------------------------
(* C10 *)

\* the position of the first poison pill among the values put on the queue
PoisonIndex ==
    CHOOSE k \in DOMAIN pushed :
       pushed[k] = None /\ \A m \in 1..(k - 1) : pushed[m] # None

\* the step appends a started event
EmitsStarted ==
    /\ Len(events') = Len(events) + 1
    /\ events'[Len(events')].kind = "started"

\* C10: the poison pill ends the Worker.  The step that pops None goes to
\* TERMINATED and touches neither the Current Download State nor the events;
\* from then on the Worker pops nothing, sets nothing and starts nothing; the
\* Links started are exactly those put before the pill, and everything put
\* after it stays in the queue.
C10_PoisonTerminates ==
    /\ [][ (w_pc = "get" /\ w_pc' # "get" /\ Head(download_queue) = None) =>
             /\ w_pc' = "terminated"
             /\ download_queue' = Tail(download_queue)
             /\ UNCHANGED << is_downloading, current_download, queue_lock,
                             events, last_notification >> ]_vars
    /\ [][ w_pc = "terminated" =>
             /\ w_pc' = "terminated"
             /\ IsPrefix(download_queue, download_queue')
             /\ UNCHANGED << is_downloading, current_download, queue_lock >>
             /\ ~EmitsStarted ]_vars
    /\ [](w_pc = "terminated" =>
             /\ StartedUrls = SubSeq(pushed, 1, PoisonIndex - 1)
             /\ download_queue = SubSeq(pushed, PoisonIndex + 1, Len(pushed)))

\* the Worker has terminated and a Link put after the pill is left in the queue
C10_Witness ==
    /\ w_pc = "terminated"
    /\ \E k \in DOMAIN download_queue : download_queue[k] \in Links

-----------------------------------------------------------------------------
(* C11 *)

\* the positions of the stopped events
StoppedEvents == { i \in DOMAIN events : events[i].kind = "stopped" }

\* C11: the stop signal.  The step that takes the Poller out of its loop appends
\* exactly one stopped event and touches neither the Ledger nor the queue (no
\* poison pill is put); from then on the Poller stays stopped, nothing is marked
\* or put and no enqueued event is emitted; there is one stopped event exactly
\* when the Poller has stopped, no enqueued event follows it and no None was ever
\* put; and the Worker, waiting on get with Links still queued, can pop.
C11_StopSignal ==
    /\ [][ (p_pc # "stopped" /\ p_pc' = "stopped") =>
             /\ events' = Append(events, Event("stopped", None))
             /\ UNCHANGED << downloaded_urls, download_queue, pushed,
                             unfinished_tasks, is_downloading, current_download,
                             queue_lock, w_pc, w_url >> ]_vars
    /\ [][ p_pc = "stopped" =>
             /\ p_pc' = "stopped"
             /\ UNCHANGED << downloaded_urls, pushed, last_clipboard >>
             /\ \/ download_queue' = download_queue
                \/ download_queue # << >> /\ download_queue' = Tail(download_queue)
             /\ ~EmitsEnqueued ]_vars
    /\ [](/\ Cardinality(StoppedEvents) = (IF p_pc = "stopped" THEN 1 ELSE 0)
          /\ \A i \in StoppedEvents : \A j \in DOMAIN events :
                j > i => events[j].kind \in {"started", "completed", "failed"}
          /\ None \notin Range(pushed)
          /\ w_pc # "terminated"
          /\ (p_pc = "stopped" /\ w_pc = "get" /\ download_queue # << >>)
                => ENABLED Get)

\* after the stopped event the Worker has popped and started a Link that was
\* waiting in the queue
C11_Witness ==
    /\ p_pc = "stopped"
    /\ \E i \in StoppedEvents : \E j \in DOMAIN events : j > i /\ IsStarted(j)

-----------------------------------------------------------------------------
(* C12 *)

\* the step is a tick in which paste() raised an error that is not the stop
\* signal: the tick is left with clipboard_content unassigned and no stopped
\* event
IsPasteErrorStep ==
    /\ p_pc = "paste"
    /\ p_pc' # "paste"
    /\ clipboard_content' = None
    /\ events' = events

\* C12: a buffer read error is not fatal.  The tick in which paste() raises goes
\* to the sleep of the loop: last_clipboard, the Ledger, the queue and the values
\* put are unchanged and nothing is emitted.  The sleep then leads to the next
\* tick, and every tick that reads a content different from last_clipboard
\* records it and runs the Link Matcher on it, entering add_to_queue exactly when
\* a Link is found.
C12_PasteErrorNotFatal ==
    /\ [][ IsPasteErrorStep =>
             /\ p_pc' = "sleep"
             /\ UNCHANGED << last_clipboard, downloaded_urls, download_queue,
                             pushed, unfinished_tasks, events, last_notification,
                             youtube_url >> ]_vars
    /\ [][ (p_pc = "sleep" /\ p_pc' \notin {"sleep", "stopped"}) =>
             /\ p_pc' = "paste"
             /\ UNCHANGED << last_clipboard, downloaded_urls, download_queue,
                             pushed, events >> ]_vars
    /\ [][ (p_pc = "paste" /\ p_pc' \notin {"paste", "stopped"}
               /\ clipboard_content' # None
               /\ clipboard_content' # last_clipboard) =>
             /\ last_clipboard' = clipboard_content'
             /\ youtube_url' = is_youtube_url(clipboard_content')
             /\ p_pc' = IF is_youtube_url(clipboard_content') # None
                        THEN "check" ELSE "sleep" ]_vars
    /\ [](/\ p_pc = "sleep" => ENABLED Sleep
          /\ p_pc = "paste" => ENABLED PasteError /\ \A text \in Texts : ENABLED Tick(text))

\* paste() has raised in a tick taken after a Link was detected and put on the
\* queue
C12_Witness ==
    /\ p_pc = "sleep"
    /\ clipboard_content = None
    /\ Truthy(is_youtube_url(last_clipboard))
    /\ last_clipboard # EmptyStr
    /\ download_queue # << >>

-----------------------------------------------------------------------------
(* C13 *)

\* the substring the first pattern (in list order) that matches text matches,
\* as it stands in text; None when no pattern matches
RECURSIVE MatchedSubstring(_, _)
MatchedSubstring(text, p) ==
    IF p > Len(youtube_patterns) THEN None
    ELSE IF Search(youtube_patterns[p], text) # None
         THEN Search(youtube_patterns[p], text)
         ELSE MatchedSubstring(text, p + 1)

\* s begins with http:// or https://, in any case of the letters
HasScheme(s) == SchemeLen(s, 1) > 0

\* s without its scheme
AfterScheme(s) == SubSeq(s, SchemeLen(s, 1) + 1, Len(s))

\* C13: Link Matcher normalization.  When a pattern matches the text, the Link
\* returned is the matched substring itself when that begins with a scheme (in
\* whatever case it is written), and "https://" followed by the matched
\* substring when it has none; so the Link begins with one scheme, and what
\* follows that scheme does not begin with another.
C13_MatcherNormalization ==
    (/\ p_pc = "matched"
     /\ clipboard_content \notin {None, EmptyStr}
     /\ MatchedSubstring(clipboard_content, 1) # None) =>
       LET m == MatchedSubstring(clipboard_content, 1)
       IN /\ HasScheme(m) => youtube_url = m
          /\ ~HasScheme(m) => youtube_url = HttpsSchemeLit \o m
          /\ HasScheme(youtube_url)
          /\ ~HasScheme(AfterScheme(youtube_url))

\* the same with the scheme of the text written in lower case only
C13_LowerCaseSchemeOnly ==
    (/\ p_pc = "matched"
     /\ clipboard_content \notin {None, EmptyStr}
     /\ MatchedSubstring(clipboard_content, 1) # None
     /\ HasScheme(MatchedSubstring(clipboard_content, 1))
           => StartsWith(MatchedSubstring(clipboard_content, 1), HttpLit)) =>
       LET m == MatchedSubstring(clipboard_content, 1)
       IN /\ HasScheme(m) => youtube_url = m
          /\ ~HasScheme(m) => youtube_url = HttpsSchemeLit \o m
          /\ HasScheme(youtube_url)
          /\ ~HasScheme(AfterScheme(youtube_url))

-----------------------------------------------------------------------------
(* C14 *)

\* the patterns that match somewhere in text, as positions in the order
\* watch-page, short-link, shorts, playlist
MatchingPatterns(text) ==
    LET order == << WatchHost, ShortHost, ShortsHost, PlaylistHost >>
    IN { p \in 1..4 : \E i \in 1..Len(text) : MatchAt(text, i, order[p]) > 0 }

\* the leftmost match in text of the first pattern, in that order, that matches
SelectedMatch(text) ==
    LET order == << WatchHost, ShortHost, ShortsHost, PlaylistHost >>
        p == CHOOSE q \in MatchingPatterns(text) :
                \A r \in MatchingPatterns(text) : q <= r
        i == CHOOSE j \in 1..Len(text) :
                /\ MatchAt(text, j, order[p]) > 0
                /\ \A k \in 1..(j - 1) : MatchAt(text, k, order[p]) = 0
    IN SubSeq(text, i, MatchAt(text, i, order[p]) - 1)

\* C14: Link Matcher selection.  is_youtube_url returns None for a value that is
\* no str, for the empty str and for a text no pattern matches; otherwise the
\* Link it returns is the leftmost match of the first pattern, in the order
\* watch-page, short-link, shorts, playlist, that matches anywhere in the text
\* (with or without "https://" put before it), wherever the other patterns
\* match; and the text of the scenario yields https://youtu.be/abc123XYZ9.
C14_MatcherSelection ==
    p_pc = "matched" =>
       /\ clipboard_content \in {None, EmptyStr} => youtube_url = None
       /\ clipboard_content \notin {None, EmptyStr} =>
             IF MatchingPatterns(clipboard_content) = {}
             THEN youtube_url = None
             ELSE youtube_url \in
                     { SelectedMatch(clipboard_content),
                       HttpsSchemeLit \o SelectedMatch(clipboard_content) }
       /\ clipboard_content = ScenarioText => youtube_url = ScenarioLink

\* the text holds a short-link first and a watch-page URL after it, and the
\* watch-page URL was returned
C14_Witness ==
    /\ p_pc = "matched"
    /\ clipboard_content = MatcherOtherTexts[1]
    /\ Search(ShortHost, clipboard_content) = SubSeq(clipboard_content, 1, 10)
    /\ youtube_url = HttpsSchemeLit \o SubSeq(clipboard_content, 12, Len(clipboard_content))

-----------------------------------------------------------------------------
(* C15 *)

\* C15: the Current Download State is cleared unconditionally.  Every step by
\* which the Worker gets back to get, whatever happened since it recorded the
\* state (the download failing, or an error raised before the download operation
\* was invoked), leaves is_downloading false and current_download None.
C15_StateClearedUnconditionally ==
    [][ (w_pc # "get" /\ w_pc' = "get") =>
          (~is_downloading' /\ current_download' = None) ]_vars

-----------------------------------------------------------------------------
(* C16 *)

\* C16: the depth of the enqueued event is the depth the push resulted in.  The
\* step of add_to_queue that emits the enqueued event of the Link it has put
\* shows a depth of at least 1 (the Link itself is counted) that equals the
\* number of values in the queue right after the put, wherever the Worker's get
\* falls in between.
C16_EnqueuedDepthIsResultingDepth ==
    [][ (p_pc = "emit" /\ EmitsEnqueued) =>
          /\ last_notification'.kind = "enqueued"
          /\ last_notification'.depth >= 1
          /\ last_notification'.depth = put_depth ]_vars

-----------------------------------------------------------------------------
(* C17 *)

\* C17: check, mark and enqueue decision are one atomic step.  With another
\* thread in add_to_queue for the same Link, the two calls are never both past
\* the Ledger guard with that Link still to mark or to put, and the Link is put
\* on the queue at most once.
C17_CheckMarkAtomic ==
    /\ ~(/\ p_pc \in {"mark", "put"}
         /\ c_pc \in {"mark", "put"}
         /\ youtube_url = c_url)
    /\ \A url \in Links :
          Cardinality({ k \in DOMAIN pushed : pushed[k] = url }) <= 1

-----------------------------------------------------------------------------
(* C18 *)

\* every write of is_downloading or current_download is made by the holder of
\* queue_lock
WritesUnderLock ==
    [][ (is_downloading' # is_downloading \/ current_download' # current_download)
           => (queue_lock = "worker" \/ queue_lock' = "worker") ]_vars

\* the Poller's reads of is_downloading (line 175) and of current_download
\* (line 185, in the else branch) are made holding queue_lock
PollerReadsUnderLock ==
    [][ (\/ p_pc = "flag" /\ p_pc' = "emit"
         \/ /\ p_pc = "emit" /\ p_pc' = "sleep"
            /\ ~(queue_size = 1 /\ ~p_is_downloading))
           => queue_lock = "poller" ]_vars

\* the Poller does not read the state half-way through the Worker's update of
\* it: is_downloading is not read as true while current_download is still None,
\* and current_download is not read as None after is_downloading was read as
\* true (which shows "Starting..." for a download seen running)
NoPartialObservation ==
    /\ [][ (p_pc = "flag" /\ p_pc' = "emit") =>
             ~(is_downloading /\ current_download = None) ]_vars
    /\ [][ (/\ p_pc = "emit" /\ p_pc' = "sleep"
            /\ ~(queue_size = 1 /\ ~p_is_downloading)) =>
             ~(p_is_downloading /\ current_download = None) ]_vars

\* C18: every read and every write of the Current Download State is made
\* holding queue_lock, the Poller's reads for the enqueued event included, so
\* the Poller never observes the state partially updated.
C18_StateAccessUnderLock ==
    /\ WritesUnderLock
    /\ PollerReadsUnderLock
    /\ NoPartialObservation

-----------------------------------------------------------------------------
(* C19 *)

\* C19: liveness of the pipeline.  With the Worker scheduled fairly and every
\* download operation returning, every Link waiting in the queue is eventually
\* popped and its started event emitted; the Worker never terminates, and no
\* step of the program (the stop of the Poller included) puts None on the queue.
C19_PipelineLiveness ==
    /\ \A url \in Links :
          (url \in Range(download_queue)) ~> HasEvent("started", url)
    /\ [](w_pc # "terminated" /\ None \notin Range(pushed))
    /\ [][None \notin Range(download_queue')]_vars

\* every Link put on the queue has been started, the second after it waited for
\* the first, and the Worker is back in get
C19_Witness ==
    /\ Len(pushed) = 2
    /\ StartedUrls = pushed
    /\ download_queue = << >>
    /\ w_pc = "get"
    /\ \E i \in DOMAIN events :
          /\ events[i] = Event("enqueued", pushed[2])
          /\ \E j \in DOMAIN events : j > i /\ IsDoneOf(1, j) /\ IsStarted(1)

-----------------------------------------------------------------------------
(* C20 *)

\* C20: the Ledger covers the pipeline.  In every state, those inside
\* add_to_queue included, every Link in the queue, the Link the Worker has
\* popped and holds, the Link current_download names and every Link ever put or
\* started is in downloaded_urls; and add_to_queue is about to put only a Link
\* it has marked.
C20_LedgerCoversPipeline ==
    /\ \A k \in DOMAIN download_queue : download_queue[k] \in downloaded_urls
    /\ w_url # None => w_url \in downloaded_urls
    /\ current_download # None =>
          \E url \in downloaded_urls : current_download = CurrentLabel(url)
    /\ \A k \in DOMAIN pushed : pushed[k] \in downloaded_urls
    /\ \A i \in DOMAIN events : IsWorkerEvent(i) => events[i].url \in downloaded_urls
    /\ p_pc \in {"put", "qsize", "flag", "emit"} => youtube_url \in downloaded_urls

\* the Poller is inside add_to_queue, between the mark and the put of a Link,
\* while the Worker downloads another Link
C20_Witness ==
    /\ p_pc = "put"
    /\ youtube_url \notin Range(download_queue)
    /\ w_pc = "download"
    /\ w_url # youtube_url
    /\ Cardinality(downloaded_urls) = 2

=============================================================================
